---- MODULE Spec2Model ----
(***************************************************************************)
(* InvoiceDocumentDropZone: the two components of                          *)
(* frontend/components/InvoiceDocumentDropZone.tsx.                         *)
(*   variant "multi"      : the window-wide drop zone with line items       *)
(*   variant "simplified" : the card drop zone with one flat record         *)
(* JavaScript strings are sequences of one-character strings, JavaScript    *)
(* numbers are decimal fractions m / 10^e or NaN or an infinity, and every  *)
(* JavaScript value carries its type tag, so that the coercions the code    *)
(* relies on (Boolean, String, Number, parseFloat, <, >, RegExp.test) are   *)
(* computed and not assumed.                                                *)
(***************************************************************************)
EXTENDS Integers, Sequences, FiniteSets, TLC

(***************************************************************************)
(* JavaScript numbers                                                       *)
(***************************************************************************)
RECURSIVE Pow10(_)
Pow10(n) == IF n <= 0 THEN 1 ELSE 10 * Pow10(n - 1)

RECURSIVE Normalise(_, _)
Normalise(m, e) ==
  IF e > 0 /\ m % 10 = 0 THEN Normalise(m \div 10, e - 1)
  ELSE [k |-> "fin", m |-> m, e |-> e]

Fin(m, e) == Normalise(m, e)
Whole(m) == [k |-> "fin", m |-> m, e |-> 0]
NaN == [k |-> "nan", m |-> 0, e |-> 0]
PosInf == [k |-> "pinf", m |-> 0, e |-> 0]
NegInf == [k |-> "ninf", m |-> 0, e |-> 0]

IsNaN(a) == a.k = "nan"
IsFinite(a) == a.k = "fin"

IntPart(a) == a.m \div Pow10(a.e)
FracPart(a) == a.m % Pow10(a.e)

FinLt(a, b) ==
  LET E == IF a.e > b.e THEN a.e ELSE b.e
  IN \/ IntPart(a) < IntPart(b)
     \/ /\ IntPart(a) = IntPart(b)
        /\ FracPart(a) * Pow10(E - a.e) < FracPart(b) * Pow10(E - b.e)

\* a < b on numbers; any comparison with NaN is false
NumLt(a, b) ==
  CASE a.k = "nan" \/ b.k = "nan" -> FALSE
    [] a.k = "pinf" -> FALSE
    [] b.k = "ninf" -> FALSE
    [] a.k = "ninf" -> TRUE
    [] b.k = "pinf" -> TRUE
    [] OTHER -> FinLt(a, b)

NumGt(a, b) == NumLt(b, a)
NumLe(a, b) == a.k # "nan" /\ b.k # "nan" /\ ~NumLt(b, a)

(***************************************************************************)
(* JavaScript strings                                                       *)
(***************************************************************************)
Digits == {"0", "1", "2", "3", "4", "5", "6", "7", "8", "9"}
WhiteSpace == {" "}

IsDigit(c) == c \in Digits

DigitVal(c) ==
  CASE c = "0" -> 0 [] c = "1" -> 1 [] c = "2" -> 2 [] c = "3" -> 3
    [] c = "4" -> 4 [] c = "5" -> 5 [] c = "6" -> 6 [] c = "7" -> 7
    [] c = "8" -> 8 [] c = "9" -> 9

DigitChar(d) ==
  CASE d = 0 -> "0" [] d = 1 -> "1" [] d = 2 -> "2" [] d = 3 -> "3"
    [] d = 4 -> "4" [] d = 5 -> "5" [] d = 6 -> "6" [] d = 7 -> "7"
    [] d = 8 -> "8" [] d = 9 -> "9"

\* the number of digits of s from position i on
RECURSIVE CountDigits(_, _)
CountDigits(s, i) ==
  IF i <= Len(s) /\ IsDigit(s[i]) THEN 1 + CountDigits(s, i + 1) ELSE 0

\* the value of the n digits of s from position i on
RECURSIVE DigitsValue(_, _, _)
DigitsValue(s, i, n) ==
  IF n = 0 THEN 0
  ELSE DigitsValue(s, i, n - 1) * 10 + DigitVal(s[i + n - 1])

RECURSIVE SkipWhiteSpace(_, _)
SkipWhiteSpace(s, i) ==
  IF i <= Len(s) /\ s[i] \in WhiteSpace THEN SkipWhiteSpace(s, i + 1) ELSE i

RECURSIVE SkipWhiteSpaceBack(_, _)
SkipWhiteSpaceBack(s, j) ==
  IF j >= 1 /\ s[j] \in WhiteSpace THEN SkipWhiteSpaceBack(s, j - 1) ELSE j

Trim(s) ==
  LET i == SkipWhiteSpace(s, 1)
      j == SkipWhiteSpaceBack(s, Len(s))
  IN IF i > j THEN <<>> ELSE SubSeq(s, i, j)

StartsWithAt(s, i, p) ==
  /\ i + Len(p) - 1 <= Len(s)
  /\ \A j \in 1..Len(p) : s[i + j - 1] = p[j]

InfinityLiteral == <<"I", "n", "f", "i", "n", "i", "t", "y">>

\* The value of a decimal literal: sign, the digits before and after the
\* point as one integer mant with nFrac of them after the point, and the
\* exponent x (negative when eNeg), present when hasExp
DecimalValue(neg, mant, nFrac, hasExp, eNeg, x) ==
  LET sm == IF neg THEN 0 - mant ELSE mant
  IN IF ~hasExp THEN Fin(sm, nFrac)
     ELSE IF eNeg THEN Fin(sm, nFrac + x)
     ELSE IF x >= nFrac THEN Fin(sm * Pow10(x - nFrac), 0)
     ELSE Fin(sm, nFrac - x)

\* the exponent part, which starts at position iEnd when there is one
WithExponent(s, neg, mant, nFrac, iEnd) ==
  LET hasE == iEnd <= Len(s) /\ s[iEnd] \in {"e", "E"}
      hasESign == hasE /\ iEnd + 1 <= Len(s) /\ s[iEnd + 1] \in {"+", "-"}
      iExp == IF hasESign THEN iEnd + 2 ELSE iEnd + 1
      nExp == IF hasE THEN CountDigits(s, iExp) ELSE 0
  IN [ok |-> TRUE,
      num |-> DecimalValue(neg, mant, nFrac, nExp > 0,
                           hasESign /\ s[iEnd + 1] = "-",
                           IF nExp > 0 THEN DigitsValue(s, iExp, nExp) ELSE 0),
      next |-> IF nExp > 0 THEN iExp + nExp ELSE iEnd]

\* the digits after the point, when a point follows the nInt digits at i1
WithFraction(s, i, neg, i1, nInt) ==
  LET hasDot == i1 + nInt <= Len(s) /\ s[i1 + nInt] = "."
      nFrac == IF hasDot THEN CountDigits(s, i1 + nInt + 1) ELSE 0
  IN IF nInt + nFrac = 0
     THEN [ok |-> FALSE, num |-> NaN, next |-> i]
     ELSE WithExponent(s, neg,
                       DigitsValue(s, i1, nInt) * Pow10(nFrac)
                       + (IF nFrac > 0 THEN DigitsValue(s, i1 + nInt + 1, nFrac) ELSE 0),
                       nFrac,
                       IF hasDot THEN i1 + nInt + 1 + nFrac ELSE i1 + nInt)

\* the literal after its sign, at position i1
Unsigned(s, i, neg, i1) ==
  IF StartsWithAt(s, i1, InfinityLiteral)
  THEN [ok |-> TRUE, num |-> IF neg THEN NegInf ELSE PosInf,
        next |-> i1 + Len(InfinityLiteral)]
  ELSE WithFraction(s, i, neg, i1, CountDigits(s, i1))

\* The longest StrDecimalLiteral of s that starts at position i:
\* [ok, num, next], next being the position after it.
DecimalPrefix(s, i) ==
  LET hasSign == i <= Len(s) /\ s[i] \in {"+", "-"}
  IN Unsigned(s, i, hasSign /\ s[i] = "-", IF hasSign THEN i + 1 ELSE i)

\* parseFloat(string): leading white space skipped, the longest decimal
\* prefix converted, NaN when there is none; what follows is ignored
ParseFloat(s) ==
  LET i == SkipWhiteSpace(s, 1)
      p == DecimalPrefix(s, i)
  IN IF p.ok THEN p.num ELSE NaN

\* Number(string): white space trimmed, "" is 0, the whole string must be a
\* numeric literal (decimal literals only are modelled)
StringToNumber(s) ==
  LET t == Trim(s)
      p == DecimalPrefix(t, 1)
  IN IF t = <<>> THEN Whole(0)
     ELSE IF p.ok /\ p.next = Len(t) + 1 THEN p.num
     ELSE NaN

RECURSIVE NatToString(_)
NatToString(n) ==
  IF n < 10 THEN <<DigitChar(n)>>
  ELSE NatToString(n \div 10) \o <<DigitChar(n % 10)>>

RECURSIVE PadZeros(_, _)
PadZeros(s, n) == IF Len(s) >= n THEN s ELSE PadZeros(<<"0">> \o s, n)

Magnitude(m) == IF m < 0 THEN 0 - m ELSE m

\* Number::toString for the decimal fractions of the model
NumberToString(a) ==
  CASE a.k = "nan" -> <<"N", "a", "N">>
    [] a.k = "pinf" -> InfinityLiteral
    [] a.k = "ninf" -> <<"-">> \o InfinityLiteral
    [] OTHER ->
       (IF a.m < 0 THEN <<"-">> ELSE <<>>)
       \o NatToString(Magnitude(a.m) \div Pow10(a.e))
       \o (IF a.e > 0
           THEN <<".">> \o PadZeros(NatToString(Magnitude(a.m) % Pow10(a.e)), a.e)
           ELSE <<>>)

\* DateRegexTest with one or two digits for the month and for the day
DateRegexTest_Unpadded(s) ==
  /\ Len(s) \in 8..10
  /\ \A i \in 1..4 : IsDigit(s[i])
  /\ s[5] = "-"
  /\ \E j \in 7..8 :
       /\ j < Len(s)
       /\ s[j] = "-"
       /\ \A i \in (6..Len(s)) \ {j} : IsDigit(s[i])

\* /^\d{4}-\d{2}-\d{2}$/u.test(s)
DateRegexTest(s) ==
  /\ Len(s) = 10
  /\ \A i \in {1, 2, 3, 4, 6, 7, 9, 10} : IsDigit(s[i])
  /\ s[5] = "-"
  /\ s[8] = "-"

(***************************************************************************)
(* JavaScript values                                                        *)
(***************************************************************************)
JNum(a) == [t |-> "number", n |-> a, s |-> <<>>, b |-> FALSE]
JStr(s) == [t |-> "string", n |-> NaN, s |-> s, b |-> FALSE]
JBool(b) == [t |-> "boolean", n |-> NaN, s |-> <<>>, b |-> b]
JNull == [t |-> "null", n |-> NaN, s |-> <<>>, b |-> FALSE]
JUndefined == [t |-> "undefined", n |-> NaN, s |-> <<>>, b |-> FALSE]

\* ToString
ToStr(v) ==
  CASE v.t = "string" -> v.s
    [] v.t = "number" -> NumberToString(v.n)
    [] v.t = "boolean" -> IF v.b THEN <<"t", "r", "u", "e">>
                          ELSE <<"f", "a", "l", "s", "e">>
    [] v.t = "null" -> <<"n", "u", "l", "l">>
    [] OTHER -> <<"u", "n", "d", "e", "f", "i", "n", "e", "d">>

\* ToNumber
ToNum(v) ==
  CASE v.t = "number" -> v.n
    [] v.t = "string" -> StringToNumber(v.s)
    [] v.t = "boolean" -> IF v.b THEN Whole(1) ELSE Whole(0)
    [] v.t = "null" -> Whole(0)
    [] OTHER -> NaN

\* ToBoolean
Truthy(v) ==
  CASE v.t = "boolean" -> v.b
    [] v.t = "number" -> ~(v.n.k = "nan" \/ (v.n.k = "fin" /\ v.n.m = 0))
    [] v.t = "string" -> v.s # <<>>
    [] OTHER -> FALSE


\* String(x), Number(x), Boolean(x)
StringOf(v) == JStr(ToStr(v))
NumberOf(v) == JNum(ToNum(v))
BooleanOf(v) == JBool(Truthy(v))

\* parseFloat(x): the argument is converted to a string first
ParseFloatOf(v) == ParseFloat(ToStr(v))

\* x < c and x > c with a number c: x is converted to a number first
LessThan(v, c) == NumLt(ToNum(v), Whole(c))
GreaterThan(v, c) == NumGt(ToNum(v), Whole(c))
LessOrEqual(a, c) == NumLe(a, Whole(c))

(***************************************************************************)
(* The object the extraction call returns (result.object)                   *)
(***************************************************************************)
NoItems == [arr |-> FALSE, items |-> <<>>]
ArrayOf(items) == [arr |-> TRUE, items |-> items]

\* an object with no own property
EmptyObject ==
  [has |-> {}, isInvoice |-> JUndefined, lineItems |-> NoItems,
   invoiceDate |-> JUndefined, description |-> JUndefined,
   quantity |-> JUndefined, hourly |-> JUndefined,
   payRateInSubunits |-> JUndefined]

\* o.f, undefined when o has no property f
Get(o, f) == IF f \in o.has THEN o[f] ELSE JUndefined

LineItem(d, q, h, r) ==
  [description |-> d, quantity |-> q, hourly |-> h, payRateInSubunits |-> r]

MultiFields == {"isInvoice", "lineItems", "invoiceDate"}
SimplifiedFields ==
  {"description", "quantity", "hourly", "payRateInSubunits", "invoiceDate"}

MultiObject(isInv, items, date) ==
  [EmptyObject EXCEPT !.has = MultiFields, !.isInvoice = isInv,
                      !.lineItems = items, !.invoiceDate = date]

SimplifiedObject(d, q, h, r, date) ==
  [EmptyObject EXCEPT !.has = SimplifiedFields, !.description = d,
                      !.quantity = q, !.hourly = h,
                      !.payRateInSubunits = r, !.invoiceDate = date]

\* o without the properties of drop
Without(o, drop) ==
  [has |-> o.has \ drop,
   isInvoice |-> IF "isInvoice" \in drop THEN JUndefined ELSE o.isInvoice,
   lineItems |-> IF "lineItems" \in drop THEN NoItems ELSE o.lineItems,
   invoiceDate |-> IF "invoiceDate" \in drop THEN JUndefined ELSE o.invoiceDate,
   description |-> IF "description" \in drop THEN JUndefined ELSE o.description,
   quantity |-> IF "quantity" \in drop THEN JUndefined ELSE o.quantity,
   hourly |-> IF "hourly" \in drop THEN JUndefined ELSE o.hourly,
   payRateInSubunits |-> IF "payRateInSubunits" \in drop THEN JUndefined
                         ELSE o.payRateInSubunits]

\* What generateObject settles with:
\*   kind "object"  result.object is o, or {properties: o} when wrapped
\*   kind "null"    result.object is null
\*   kind "error"   the call rejects with an Error
\*   kind "thrown"  the call rejects with a value that is no Error
Returned(o) == [kind |-> "object", wrapped |-> FALSE, o |-> o]
Wrapped(o) == [kind |-> "object", wrapped |-> TRUE, o |-> o]
ReturnedNull == [kind |-> "null", wrapped |-> FALSE, o |-> EmptyObject]
CallError == [kind |-> "error", wrapped |-> FALSE, o |-> EmptyObject]
CallThrown == [kind |-> "thrown", wrapped |-> FALSE, o |-> EmptyObject]
NoOutcome == [kind |-> "none", wrapped |-> FALSE, o |-> EmptyObject]

TransportMessage == "Network error"

\* extractedData: nul when it is null, else the object o. An object that is
\* only an envelope has the single property "properties".
Data(o) == [nul |-> FALSE, o |-> o]
NullData == [nul |-> TRUE, o |-> EmptyObject]
EnvelopeOnly == [EmptyObject EXCEPT !.has = {"properties"}]

(***************************************************************************)
(* Messages                                                                 *)
(***************************************************************************)
NOT_INVOICE == "NOT_INVOICE"
MsgApiKey ==
  "OpenAI API key is not configured. Please add NEXT_PUBLIC_OPENAI_API_KEY to your environment variables."
MsgUnsupportedMulti ==
  "Unsupported file type. Please upload an image, PDF, or text file."
MsgFailedToRead == "Failed to read the file. Please try a different file."
MsgUnableToAnalyze ==
  "Unable to analyze the document. Please try a clearer image or different file."
MsgNoLineItems == "No line items found in the invoice."
MsgInvalidDescription == "Invalid service description detected in the document."
MsgInvalidAmount == "Invalid payment amount detected in the document."
MsgInvalidQuantity == "Invalid quantity/hours detected in the document."
MsgInvalidDate == "Invalid or missing date in the document."
ProcessingFailedPrefix == "processing failed: "
MsgFailedToProcess ==
  "Failed to process the document. Please try again or contact support."
MsgInvalidFormatMulti ==
  "Invalid file format. Please upload an image (JPG, PNG, WebP), PDF, or text file."
MsgTooLargeMulti == "File too large. Please upload a file smaller than 10MB."
MsgNotInvoice ==
  "This doesn't appear to be an invoice or receipt. Please upload a billing document with payment information."
MsgFailedTryAgain == "Failed to process document. Please try again."

MsgReadImage == "Failed to read image file"
MsgReadPdf == "Failed to read PDF file"
MsgUnsupportedSimplified == "Unsupported file type"
MsgInvalidResponse == "Invalid response format from AI"
MsgInvalidRate == "Invalid rate detected"
MsgInvalidQuantitySimplified == "Invalid quantity detected"
MsgInvalidDateFormat == "Invalid date format"
MsgInvalidFormatSimplified ==
  "Please upload an image (JPG, PNG, WebP), PDF, or text file."
MsgTooLargeSimplified == "File size must be less than 10MB."
MsgFailedDocument == "Failed to process document"

\* a thrown value: an Error with its message, or something else
ErrorOf(msg) == [isError |-> TRUE, message |-> msg]
NotAnError == [isError |-> FALSE, message |-> ""]
NoException == [isError |-> FALSE, message |-> "none"]

Returns(o) == [ok |-> TRUE, exc |-> NoException, data |-> o]
Throws(e) == [ok |-> FALSE, exc |-> e, data |-> EmptyObject]

(***************************************************************************)
(* processDocument after the call, window-wide variant                      *)
(***************************************************************************)
MaxRate == 100000000
MaxQuantity == 10000

\* the properties envelope is unwrapped when it carries the three fields
NormalizeMulti(out) ==
  IF out.kind # "object" THEN NullData
  ELSE IF ~out.wrapped THEN Data(out.o)
  ELSE IF MultiFields \subseteq out.o.has
       THEN Data(MultiObject(BooleanOf(out.o.isInvoice),
                             IF out.o.lineItems.arr THEN out.o.lineItems
                             ELSE ArrayOf(<<>>),
                             StringOf(out.o.invoiceDate)))
       ELSE Data(EnvelopeOnly)

DescriptionInvalid(item) ==
  ~Truthy(item.description) \/ item.description.t # "string"

RateInvalid(item) ==
  LessThan(item.payRateInSubunits, 0) \/ GreaterThan(item.payRateInSubunits, MaxRate)

QuantityNumInvalid(quantityNum) ==
  IsNaN(quantityNum) \/ LessOrEqual(quantityNum, 0)
  \/ NumGt(quantityNum, Whole(MaxQuantity))

QuantityInvalid(item) == QuantityNumInvalid(ParseFloatOf(item.quantity))

\* ItemError with the rate and the quantity looked at before the description
ItemError_RateFirst(item) ==
  IF RateInvalid(item) THEN MsgInvalidAmount
  ELSE IF QuantityInvalid(item) THEN MsgInvalidQuantity
  ELSE IF DescriptionInvalid(item) THEN MsgInvalidDescription
  ELSE ""

\* the body of the loop over the line items: "" when the item passes
ItemError(item) ==
  IF DescriptionInvalid(item) THEN MsgInvalidDescription
  ELSE IF RateInvalid(item) THEN MsgInvalidAmount
  ELSE IF QuantityInvalid(item) THEN MsgInvalidQuantity
  ELSE ""

\* the loop: the error of the first item that has one
RECURSIVE LineItemsError(_)
FirstError(e, rest) == IF e # "" THEN e ELSE LineItemsError(rest)
LineItemsError(items) ==
  IF items = <<>> THEN "" ELSE FirstError(ItemError(Head(items)), Tail(items))

DateInvalid(o) == ~DateRegexTest(ToStr(Get(o, "invoiceDate")))

\* the check that follows the loop
DateError(e, o) ==
  IF e # "" THEN e ELSE IF DateInvalid(o) THEN MsgInvalidDate ELSE ""

\* ValidateMulti with the line items looked at before isInvoice
ValidateMulti_ItemsFirst(d) ==
  IF d.nul THEN MsgUnableToAnalyze
  ELSE IF ~("lineItems" \in d.o.has /\ d.o.lineItems.arr)
          \/ Len(d.o.lineItems.items) = 0 THEN MsgNoLineItems
  ELSE IF LineItemsError(d.o.lineItems.items) # ""
       THEN LineItemsError(d.o.lineItems.items)
  ELSE IF ~Truthy(Get(d.o, "isInvoice")) THEN NOT_INVOICE
  ELSE DateError("", d.o)

\* the checks in the order of the code: the message thrown, "" when none is
ValidateMulti(d) ==
  IF d.nul THEN MsgUnableToAnalyze
  ELSE IF ~Truthy(Get(d.o, "isInvoice")) THEN NOT_INVOICE
  ELSE IF ~("lineItems" \in d.o.has /\ d.o.lineItems.arr)
          \/ Len(d.o.lineItems.items) = 0 THEN MsgNoLineItems
  ELSE DateError(LineItemsError(d.o.lineItems.items), d.o)

\* the catch around the call and the validation
RethrowMulti(msg) ==
  IF msg = NOT_INVOICE THEN ErrorOf(NOT_INVOICE)
  ELSE ErrorOf(ProcessingFailedPrefix \o msg)

ValidatedMulti(d, e) == IF e = "" THEN Returns(d.o) ELSE Throws(RethrowMulti(e))
CheckedMulti(d) == ValidatedMulti(d, ValidateMulti(d))

ProcessResponseMulti(out) ==
  IF out.kind = "error" THEN Throws(RethrowMulti(TransportMessage))
  ELSE IF out.kind = "thrown" THEN Throws(ErrorOf(MsgFailedToProcess))
  ELSE CheckedMulti(NormalizeMulti(out))

(***************************************************************************)
(* processDocument after the call, card variant                             *)
(***************************************************************************)
\* NormalizeSimplified with the fields of the envelope taken as they are
NormalizeSimplified_AsIs(out) ==
  IF out.kind # "object" THEN NullData
  ELSE IF ~out.wrapped THEN Data(out.o)
  ELSE IF SimplifiedFields \subseteq out.o.has THEN Data(out.o)
  ELSE Data(EnvelopeOnly)

\* the envelope is unwrapped when it carries the five fields
NormalizeSimplified(out) ==
  IF out.kind # "object" THEN NullData
  ELSE IF ~out.wrapped THEN Data(out.o)
  ELSE IF SimplifiedFields \subseteq out.o.has
       THEN Data(SimplifiedObject(StringOf(out.o.description),
                                  StringOf(out.o.quantity),
                                  BooleanOf(out.o.hourly),
                                  NumberOf(out.o.payRateInSubunits),
                                  StringOf(out.o.invoiceDate)))
       ELSE Data(EnvelopeOnly)

RateInvalidSimplified(o) ==
  LessThan(Get(o, "payRateInSubunits"), 0)
  \/ GreaterThan(Get(o, "payRateInSubunits"), MaxRate)

QuantityInvalidSimplified(o) ==
  \/ LessOrEqual(ParseFloatOf(Get(o, "quantity")), 0)
  \/ NumGt(ParseFloatOf(Get(o, "quantity")), Whole(MaxQuantity))

ValidateSimplified(d) ==
  IF d.nul THEN MsgInvalidResponse
  ELSE IF RateInvalidSimplified(d.o) THEN MsgInvalidRate
  ELSE IF QuantityInvalidSimplified(d.o) THEN MsgInvalidQuantitySimplified
  ELSE IF DateInvalid(d.o) THEN MsgInvalidDateFormat
  ELSE ""

ValidatedSimplified(d, e) == IF e = "" THEN Returns(d.o) ELSE Throws(ErrorOf(e))
CheckedSimplified(d) == ValidatedSimplified(d, ValidateSimplified(d))

ProcessResponseSimplified(out) ==
  IF out.kind = "error" THEN Throws(ErrorOf(TransportMessage))
  ELSE IF out.kind = "thrown" THEN Throws(NotAnError)
  ELSE CheckedSimplified(NormalizeSimplified(out))

(***************************************************************************)
(* Files                                                                    *)
(***************************************************************************)
\* a media type "top/sub"; startsWith("image/") is top = "image"
MediaType(top, sub) == [top |-> top, sub |-> sub]
NoType == MediaType("", "")
ApplicationPdf == MediaType("application", "pdf")
TextPlain == MediaType("text", "plain")

validTypes ==
  {MediaType("image", "jpeg"), MediaType("image", "jpg"), MediaType("image", "png"),
   MediaType("image", "webp"), ApplicationPdf, TextPlain}

MaxFileSize == 10 * 1024 * 1024

NoFile == [type |-> NoType, size |-> 0, name |-> ""]

\* the content part built for the request
NoPayload == [tag |-> "none", data |-> "none", mediaType |-> NoType, filename |-> ""]
ImagePayload == [tag |-> "image", data |-> "base64", mediaType |-> NoType, filename |-> ""]
FilePayload(data, file) ==
  [tag |-> "file", data |-> data, mediaType |-> file.type, filename |-> file.name]

(***************************************************************************)
(* Inputs                                                                   *)
(***************************************************************************)
MaxItems == 2
MaxTimers == 1

FileTypes ==
  {MediaType("image", "png"), MediaType("image", "jpg"), ApplicationPdf, TextPlain,
   MediaType("image", "gif"), MediaType("application", "zip")}
FileSizes == {1024, MaxFileSize, MaxFileSize + 1}
FileNames == {"invoice.png"}
Files == [type : FileTypes, size : FileSizes, name : FileNames]

ApiKeys == {"", "sk-test"}

(***************************************************************************)
(* env/client: the two variables of process.env and their parse            *)
(***************************************************************************)
\* a variable of process.env: a string, or undefined when it is not set
Undefined == [present |-> FALSE, value |-> ""]
EnvString(s) == [present |-> TRUE, value |-> s]

Env(stripe, openai) ==
  [NEXT_PUBLIC_STRIPE_PUBLISHABLE_KEY |-> stripe,
   NEXT_PUBLIC_OPENAI_API_KEY |-> openai]

\* z.string(): any string passes, undefined does not
ZString(v) == v.present

NotLoaded == [status |-> "unloaded", value |-> Env(Undefined, Undefined)]
ZodError == [status |-> "failed", value |-> Env(Undefined, Undefined)]

\* z.object({...}).parse(env): the object, or a ZodError is thrown
parse(e) ==
  IF ZString(e.NEXT_PUBLIC_STRIPE_PUBLISHABLE_KEY)
     /\ ZString(e.NEXT_PUBLIC_OPENAI_API_KEY)
  THEN [status |-> "loaded", value |-> e]
  ELSE ZodError

EnvStrings == {"", " ", "0", "a", "pk_test", "sk-test", "undefined"}
EnvValues == {Undefined} \cup {EnvString(s) : s \in EnvStrings}
Envs == {Env(s, o) : s \in EnvValues, o \in EnvValues}

\* the environments of a page that shows the component
MountedEnvs == {Env(EnvString("pk_test"), EnvString(k)) : k \in ApiKeys}

Consulting == JStr(<<"C", "o", "n", "s", "u", "l", "t", "i", "n", "g">>)
EmptyString == JStr(<<>>)
Abc == JStr(<<"a", "b", "c">>)
One == JStr(<<"1">>)
GoodDate == JStr(<<"2", "0", "2", "4", "-", "0", "1", "-", "0", "5">>)
UnpaddedDate == JStr(<<"2", "0", "2", "4", "-", "1", "-", "5">>)
SlashDate == JStr(<<"0", "1", "/", "0", "5", "/", "2", "0", "2", "4">>)

\* Values of the types the schema declares
Descriptions == {Consulting, EmptyString}
Quantities ==
  {Abc, JStr(<<"0">>), One, JStr(<<"1", "0">>), JStr(<<"0", ".", "5">>),
   JStr(<<"1", "0", "0", "0", "0">>), JStr(<<"1", "0", "0", "0", "1">>)}
Rates ==
  {JNum(Whole(0 - 1)), JNum(Whole(0)), JNum(Whole(5000)), JNum(Whole(MaxRate)),
   JNum(Whole(MaxRate + 1))}
Dates == {GoodDate, UnpaddedDate, SlashDate}
Flags == {JBool(TRUE), JBool(FALSE)}

Items == {LineItem(d, q, JBool(TRUE), r) : d \in Descriptions, q \in Quantities, r \in Rates}

\* the items that longer lists are built from: one passing item and one item
\* for each set of failing checks
CoreItems ==
  {LineItem(d, q, JBool(TRUE), r) :
     d \in Descriptions,
     q \in {One, JStr(<<"0">>)},
     r \in {JNum(Whole(5000)), JNum(Whole(MaxRate + 1))}}

RECURSIVE ListsUpTo(_, _)
Extended(shorter, S) == shorter \cup {Append(l, x) : l \in shorter, x \in S}
ListsUpTo(S, n) == IF n = 0 THEN {<<>>} ELSE Extended(ListsUpTo(S, n - 1), S)

ItemLists == {<<i>> : i \in Items} \cup ListsUpTo(CoreItems, MaxItems)

\* The objects that conform to the schema: generateObject returns these
MultiObjects ==
  {MultiObject(b, ArrayOf(l), d) : b \in Flags, l \in ItemLists, d \in Dates}

SimplifiedObjects ==
  {SimplifiedObject(Consulting, q, JBool(TRUE), r, d) :
     q \in Quantities, r \in Rates, d \in Dates}

\* What a properties envelope can hold besides: values of other types, and
\* fewer fields than the schema has
GoodItem == LineItem(Consulting, One, JBool(TRUE), JNum(Whole(5000)))

MultiLoose ==
  {MultiObject(b, l, d) :
     b \in {JBool(TRUE), JNull, Abc},
     l \in {NoItems, ArrayOf(<<GoodItem>>)},
     d \in {GoodDate, JNull}}
  \cup {Without(MultiObject(JBool(TRUE), ArrayOf(<<GoodItem>>), GoodDate), {"invoiceDate"})}

SimplifiedLoose ==
  {SimplifiedObject(d, q, h, r, date) :
     d \in {Consulting, JNull},
     q \in {One, Abc, JNum(Whole(10))},
     h \in {JBool(TRUE), JNull},
     r \in {JNum(Whole(5000)), Abc, JStr(<<"5", "0", "0", "0">>), JNull},
     date \in {GoodDate, JNull}}
  \cup {Without(SimplifiedObject(Consulting, One, JBool(TRUE), JNum(Whole(5000)),
                                 GoodDate), {"hourly"})}

MultiOutcomes ==
  {Returned(o) : o \in MultiObjects}
  \cup {Wrapped(o) : o \in MultiObjects \cup MultiLoose}
  \cup {ReturnedNull, CallError, CallThrown}

SimplifiedOutcomes ==
  {Returned(o) : o \in SimplifiedObjects}
  \cup {Wrapped(o) : o \in SimplifiedObjects \cup SimplifiedLoose}
  \cup {ReturnedNull, CallError, CallThrown}

Outcomes(v) == IF v = "multi" THEN MultiOutcomes ELSE SimplifiedOutcomes

ReadResults == {"ok", "error", "wrongKind"}

(***************************************************************************)
(* The component                                                            *)
(***************************************************************************)
VARIABLES
  env,            \* process.env, the two variables env/client lists
  clientEnv,      \* the default export of env/client
  variant,        \* which of the two components this is
  apiKey,         \* clientEnv.NEXT_PUBLIC_OPENAI_API_KEY
  disabled,       \* the disabled prop
  state,          \* useState<DropZoneState>
  errorMessage,   \* useState<string>
  fileName,       \* useState<string>, window-wide variant
  extractedData,  \* useState<ExtractedInvoiceData | null>, card variant
  isDragActive,   \* useState(false)
  dragCounter,    \* useState(0), window-wide variant
  subs,           \* the handleFiles calls that are awaiting processDocument
  timers,         \* the pending setTimeout(resetState, 1000) callbacks
  last            \* what the handler that ran last did

vars ==
  <<env, clientEnv, variant, apiKey, disabled, state, errorMessage, fileName, extractedData,
    isDragActive, dragCounter, subs, timers, last>>

\* a handleFiles call suspended in processDocument:
\*   pc "thrown"   processDocument has thrown exc, the catch has not run yet
\*   pc "reading"  the FileReader is reading the file
\*   pc "calling"  generateObject is in flight with payload; the file is
\*                 not used again
Sub(file, pc, exc, payload) ==
  [file |-> file, pc |-> pc, exc |-> exc, payload |-> payload]

Done(op, file) ==
  [op |-> op, file |-> file, out |-> NoOutcome, exc |-> NoException,
   started |-> FALSE, call |-> FALSE, payload |-> NoPayload,
   cb |-> FALSE, data |-> EmptyObject]

RemoveAt(s, i) == SubSeq(s, 1, i - 1) \o SubSeq(s, i + 1, Len(s))

\* a continuation of an awaited promise runs before any other event
MicrotaskPending == \E i \in 1..Len(subs) : subs[i].pc = "thrown"

Init ==
  /\ env \in MountedEnvs
  /\ clientEnv = parse(env)
  /\ clientEnv.status = "loaded"
  /\ variant \in {"multi", "simplified"}
  /\ apiKey = clientEnv.value.NEXT_PUBLIC_OPENAI_API_KEY.value
  /\ disabled \in BOOLEAN
  /\ state = "idle"
  /\ errorMessage = ""
  /\ fileName = ""
  /\ extractedData = NullData
  /\ isDragActive = FALSE
  /\ dragCounter = 0
  /\ subs = <<>>
  /\ timers = 0
  /\ last = Done("init", NoFile)

\* StartProcessingMulti without the test of the API key
StartProcessingMulti_NoKeyCheck(file) ==
  IF file.type.top = "image" \/ file.type = ApplicationPdf \/ file.type = TextPlain
  THEN Sub(file, "reading", NoException, NoPayload)
  ELSE Sub(file, "thrown", ErrorOf(MsgFailedToRead), NoPayload)

\* processDocument up to its first await, window-wide variant
StartProcessingMulti(file) ==
  IF apiKey = "" THEN Sub(file, "thrown", ErrorOf(MsgApiKey), NoPayload)
  ELSE IF file.type.top = "image" \/ file.type = ApplicationPdf \/ file.type = TextPlain
       THEN Sub(file, "reading", NoException, NoPayload)
       ELSE Sub(file, "thrown", ErrorOf(MsgFailedToRead), NoPayload)

\* processDocument up to its first await, card variant
StartProcessingSimplified(file) ==
  IF apiKey = "" THEN Sub(file, "thrown", ErrorOf(MsgApiKey), NoPayload)
  ELSE IF file.type.top = "image" \/ file.type = ApplicationPdf
       THEN Sub(file, "reading", NoException, NoPayload)
       ELSE Sub(file, "thrown", ErrorOf(MsgUnsupportedSimplified), NoPayload)

TypeRejected(file) == file.type \notin validTypes
\* SizeRejected with the limit itself refused
SizeRejected_AtLimit(file) == file.size >= MaxFileSize

SizeRejected(file) == file.size > MaxFileSize

\* handleFiles up to its await, window-wide variant
handleFilesMulti(file, op) ==
  IF disabled
  THEN /\ UNCHANGED <<state, errorMessage, fileName, subs>>
       /\ last' = Done(op, file)
  ELSE /\ fileName' = file.name
       /\ IF TypeRejected(file)
          THEN /\ errorMessage' = MsgInvalidFormatMulti
               /\ state' = "error"
               /\ UNCHANGED subs
               /\ last' = Done(op, file)
          ELSE IF SizeRejected(file)
          THEN /\ errorMessage' = MsgTooLargeMulti
               /\ state' = "error"
               /\ UNCHANGED subs
               /\ last' = Done(op, file)
          ELSE /\ state' = "processing"
               /\ errorMessage' = ""
               /\ subs' = Append(subs, StartProcessingMulti(file))
               /\ last' = [Done(op, file) EXCEPT !.started = TRUE]

\* handleFiles up to its await, card variant
handleFilesSimplified(file, op) ==
  IF disabled
  THEN /\ UNCHANGED <<state, errorMessage, fileName, subs>>
       /\ last' = Done(op, file)
  ELSE /\ UNCHANGED fileName
       /\ IF TypeRejected(file)
          THEN /\ errorMessage' = MsgInvalidFormatSimplified
               /\ state' = "error"
               /\ UNCHANGED subs
               /\ last' = Done(op, file)
          ELSE IF SizeRejected(file)
          THEN /\ errorMessage' = MsgTooLargeSimplified
               /\ state' = "error"
               /\ UNCHANGED subs
               /\ last' = Done(op, file)
          ELSE /\ state' = "processing"
               /\ errorMessage' = ""
               /\ subs' = Append(subs, StartProcessingSimplified(file))
               /\ last' = [Done(op, file) EXCEPT !.started = TRUE]

\* handleFiles without its test of disabled
handleFiles_IgnoringDisabled(file, op) ==
  /\ fileName' = (IF variant = "multi" THEN file.name ELSE fileName)
  /\ IF TypeRejected(file) \/ SizeRejected(file)
     THEN /\ errorMessage' = MsgInvalidFormatMulti
          /\ state' = "error"
          /\ UNCHANGED subs
          /\ last' = Done(op, file)
     ELSE /\ state' = "processing"
          /\ errorMessage' = ""
          /\ subs' = Append(subs, IF variant = "multi" THEN StartProcessingMulti(file)
                                  ELSE StartProcessingSimplified(file))
          /\ last' = [Done(op, file) EXCEPT !.started = TRUE]

handleFiles(file, op) ==
  IF variant = "multi" THEN handleFilesMulti(file, op)
  ELSE handleFilesSimplified(file, op)

\* the change event of the file input
handleFileInput(file) ==
  /\ ~MicrotaskPending
  /\ handleFiles(file, "select")
  /\ UNCHANGED <<env, clientEnv, variant, apiKey, disabled, extractedData, isDragActive,
                 dragCounter, timers>>

\* the drop event: handleWindowDrop, and handleDrop of the card variant
handleDrop(file) ==
  /\ ~MicrotaskPending
  /\ isDragActive' = FALSE
  /\ dragCounter' = 0
  /\ handleFiles(file, "drop")
  /\ UNCHANGED <<env, clientEnv, variant, apiKey, disabled, extractedData, timers>>

\* the catch of handleFiles
handleFilesCatch(exc) ==
  IF variant = "multi"
  THEN IF exc.isError /\ exc.message = NOT_INVOICE
       THEN /\ state' = "not-invoice"
            /\ errorMessage' = MsgNotInvoice
       ELSE /\ state' = "error"
            /\ errorMessage' = IF exc.isError THEN exc.message ELSE MsgFailedTryAgain
  ELSE /\ errorMessage' = IF exc.isError THEN exc.message ELSE MsgFailedDocument
       /\ state' = "error"

\* processDocument threw before its first await: the catch runs
Settle(i) ==
  /\ subs[i].pc = "thrown"
  /\ handleFilesCatch(subs[i].exc)
  /\ subs' = RemoveAt(subs, i)
  /\ last' = [Done("settle", subs[i].file) EXCEPT !.exc = subs[i].exc]
  /\ UNCHANGED <<env, clientEnv, variant, apiKey, disabled, fileName, extractedData,
                 isDragActive, dragCounter, timers>>

\* what the encoding builds from a file that was read
Encode(file) ==
  IF file.type.top = "image" THEN ImagePayload
  ELSE IF file.type = ApplicationPdf THEN FilePayload("base64", file)
  ELSE FilePayload("text", file)

\* what processDocument throws when the read fails:
\* "error" is reader.onerror, "wrongKind" a result of the wrong type
ReadFailure(file, r) ==
  IF variant = "multi" THEN ErrorOf(MsgFailedToRead)
  ELSE IF r = "error" THEN NotAnError
  ELSE IF file.type.top = "image" THEN ErrorOf(MsgReadImage)
  ELSE ErrorOf(MsgReadPdf)

\* the FileReader finishes: the call is issued, or the failure is caught
ReadDone(i, r) ==
  /\ ~MicrotaskPending
  /\ subs[i].pc = "reading"
  /\ IF r = "ok"
     THEN /\ subs' = [subs EXCEPT ![i] = Sub(NoFile, "calling", NoException,
                                             Encode(subs[i].file))]
          /\ last' = [Done("read", subs[i].file) EXCEPT
                        !.call = TRUE, !.payload = Encode(subs[i].file)]
          /\ UNCHANGED <<state, errorMessage>>
     ELSE /\ handleFilesCatch(ReadFailure(subs[i].file, r))
          /\ subs' = RemoveAt(subs, i)
          /\ last' = [Done("readFailed", subs[i].file) EXCEPT
                        !.exc = ReadFailure(subs[i].file, r)]
  /\ UNCHANGED <<env, clientEnv, variant, apiKey, disabled, fileName, extractedData,
                 isDragActive, dragCounter, timers>>

ProcessResponse(out) ==
  IF variant = "multi" THEN ProcessResponseMulti(out)
  ELSE ProcessResponseSimplified(out)

\* what handleFiles passes to onDataExtracted
Delivered(data) ==
  IF variant = "multi" THEN Without(data, {"isInvoice"}) ELSE data

\* the rest of handleFiles once processDocument has settled with res
Finish(i, out, res, rec) ==
     /\ ~MicrotaskPending
     /\ subs[i].pc = "calling"
     /\ subs' = RemoveAt(subs, i)
     /\ IF res.ok
        THEN /\ last' = [rec EXCEPT !.cb = TRUE, !.data = Delivered(res.data)]
             /\ IF variant = "multi"
                THEN /\ timers < MaxTimers
                     /\ timers' = timers + 1
                     /\ UNCHANGED <<state, errorMessage, extractedData>>
                ELSE /\ extractedData' = Data(res.data)
                     /\ state' = "success"
                     /\ UNCHANGED <<errorMessage, timers>>
        ELSE /\ last' = rec
             /\ handleFilesCatch(res.exc)
             /\ UNCHANGED <<extractedData, timers>>
     /\ UNCHANGED <<env, clientEnv, variant, apiKey, disabled, fileName, isDragActive, dragCounter>>

Settled(i, out, res) ==
  Finish(i, out, res, [Done("call", NoFile) EXCEPT !.out = out, !.exc = res.exc])

\* generateObject settles: the rest of processDocument and of handleFiles
CallDone(i, out) == Settled(i, out, ProcessResponse(out))

\* the assignments of resetState
resetState ==
  IF variant = "multi"
  THEN /\ state' = "idle"
       /\ errorMessage' = ""
       /\ fileName' = ""
       /\ dragCounter' = 0
       /\ isDragActive' = FALSE
       /\ UNCHANGED extractedData
  ELSE /\ state' = "idle"
       /\ errorMessage' = ""
       /\ extractedData' = NullData
       /\ UNCHANGED <<fileName, dragCounter, isDragActive>>

\* the buttons that call resetState are rendered
ResetVisible ==
  IF variant = "multi"
  THEN \/ errorMessage # "" /\ state \in {"error", "not-invoice"}
       \/ state = "not-invoice"
  ELSE state \in {"success", "error"}

\* a click on "Try Again" / "Process Another Document"
ResetClick ==
  /\ ~MicrotaskPending
  /\ ResetVisible
  /\ resetState
  /\ last' = Done("reset", NoFile)
  /\ UNCHANGED <<env, clientEnv, variant, apiKey, disabled, subs, timers>>

\* the timeout set after onDataExtracted fires
TimerFire ==
  /\ ~MicrotaskPending
  /\ timers > 0
  /\ timers' = timers - 1
  /\ resetState
  /\ last' = Done("timer", NoFile)
  /\ UNCHANGED <<env, clientEnv, variant, apiKey, disabled, subs>>

\* one document at a time: a file is submitted when none is being processed
NoneInFlight == subs = <<>>

Select == \E file \in Files : NoneInFlight /\ handleFileInput(file)
Drop == \E file \in Files : NoneInFlight /\ handleDrop(file)
Thrown == \E i \in 1..Len(subs) : Settle(i)
Read == \E i \in 1..Len(subs), r \in ReadResults : ReadDone(i, r)
Call == \E i \in 1..Len(subs), out \in Outcomes(variant) : CallDone(i, out)

Next ==
  \/ Select
  \/ Drop
  \/ Thrown
  \/ Read
  \/ Call
  \/ ResetClick
  \/ TimerFire

Spec == Init /\ [][Next]_vars

(***************************************************************************)
(* The component with its drag events, a disabled prop that changes, and    *)
(* files submitted while earlier ones are being processed                   *)
(***************************************************************************)
MaxInFlight == 2
MaxDrag == 2

UIFiles ==
  {[type |-> MediaType("image", "png"), size |-> 1024, name |-> "invoice.png"],
   [type |-> TextPlain, size |-> MaxFileSize + 1, name |-> "invoice.png"],
   [type |-> MediaType("application", "zip"), size |-> 1024, name |-> "invoice.png"]}

UIOutcomes(v) ==
  IF v = "multi"
  THEN {Returned(MultiObject(JBool(TRUE), ArrayOf(<<GoodItem>>), GoodDate)),
        Returned(MultiObject(JBool(FALSE), ArrayOf(<<>>), GoodDate)),
        CallError}
  ELSE {Returned(SimplifiedObject(Consulting, One, JBool(TRUE), JNum(Whole(5000)),
                                  GoodDate)),
        ReturnedNull,
        CallError}

\* dragenter on the window; hasFiles is e.dataTransfer.types.includes("Files")
handleWindowDragEnter(hasFiles) ==
  IF ~disabled /\ hasFiles
  THEN /\ dragCounter < MaxDrag
       /\ dragCounter' = dragCounter + 1
       /\ isDragActive' = TRUE
  ELSE UNCHANGED <<dragCounter, isDragActive>>

\* handleWindowDragLeave with the counter left to go below zero
handleWindowDragLeave_Unclamped ==
  /\ dragCounter' = dragCounter - 1
  /\ isDragActive' = (dragCounter - 1 > 0)

\* dragleave on the window
handleWindowDragLeave ==
  IF dragCounter - 1 <= 0
  THEN /\ isDragActive' = FALSE
       /\ dragCounter' = 0
  ELSE /\ dragCounter' = dragCounter - 1
       /\ UNCHANGED isDragActive

\* dragenter on the card
handleDragEnter ==
  /\ isDragActive' = (IF ~disabled THEN TRUE ELSE isDragActive)
  /\ UNCHANGED dragCounter

\* dragleave on the card
handleDragLeave ==
  /\ isDragActive' = FALSE
  /\ UNCHANGED dragCounter

DragEnter ==
  \E hasFiles \in BOOLEAN :
    /\ ~MicrotaskPending
    /\ IF variant = "multi" THEN handleWindowDragEnter(hasFiles) ELSE handleDragEnter
    /\ last' = Done("dragenter", NoFile)
    /\ UNCHANGED <<env, clientEnv, variant, apiKey, disabled, state, errorMessage,
                   fileName, extractedData, subs, timers>>

DragLeave ==
  /\ ~MicrotaskPending
  /\ IF variant = "multi" THEN handleWindowDragLeave ELSE handleDragLeave
  /\ last' = Done("dragleave", NoFile)
  /\ UNCHANGED <<env, clientEnv, variant, apiKey, disabled, state, errorMessage,
                 fileName, extractedData, subs, timers>>

\* the parent renders the component with another value of disabled
SetDisabled ==
  /\ ~MicrotaskPending
  /\ disabled' = ~disabled
  /\ last' = Done("props", NoFile)
  /\ UNCHANGED <<env, clientEnv, variant, apiKey, state, errorMessage, fileName,
                 extractedData, isDragActive, dragCounter, subs, timers>>

SelectUI ==
  \E file \in UIFiles : Len(subs) < MaxInFlight /\ handleFileInput(file)
DropUI ==
  \E file \in UIFiles : Len(subs) < MaxInFlight /\ handleDrop(file)
CallUI ==
  \E i \in 1..Len(subs), out \in UIOutcomes(variant) : CallDone(i, out)

NextUI ==
  \/ SelectUI
  \/ DropUI
  \/ Thrown
  \/ Read
  \/ CallUI
  \/ ResetClick
  \/ TimerFire
  \/ DragEnter
  \/ DragLeave
  \/ SetDisabled

SpecUI == Init /\ [][NextUI]_vars

(***************************************************************************)
(* The start of the client: env/client is evaluated once                    *)
(***************************************************************************)
InitEnv ==
  /\ env \in Envs
  /\ clientEnv = NotLoaded
  /\ variant = "multi"
  /\ apiKey = ""
  /\ disabled = FALSE
  /\ state = "idle"
  /\ errorMessage = ""
  /\ fileName = ""
  /\ extractedData = NullData
  /\ isDragActive = FALSE
  /\ dragCounter = 0
  /\ subs = <<>>
  /\ timers = 0
  /\ last = Done("init", NoFile)

\* the module body: export default z.object({...}).parse(env)
LoadEnv ==
  /\ clientEnv.status = "unloaded"
  /\ clientEnv' = parse(env)
  /\ apiKey' = parse(env).value.NEXT_PUBLIC_OPENAI_API_KEY.value
  /\ last' = Done("load", NoFile)
  /\ UNCHANGED <<env, variant, disabled, state, errorMessage, fileName,
                 extractedData, isDragActive, dragCounter, subs, timers>>

NextEnv == LoadEnv

SpecEnv == InitEnv /\ [][NextEnv]_vars

(***************************************************************************)
(* Properties                                                               *)
(***************************************************************************)
Submitted == last.op \in {"select", "drop"} /\ ~disabled
CallSettled == last.op = "call"
GotObject == CallSettled /\ last.out.kind = "object"

\* the response says isInvoice: false, in the object or in its envelope
SaysNotInvoice ==
  /\ GotObject
  /\ "isInvoice" \in last.out.o.has
  /\ last.out.o.isInvoice = JBool(FALSE)

\* C1: in the window-wide variant a response with isInvoice false, whatever
\* its line items and its date, leaves the component in the not-invoice
\* state with the not-invoice message, and onDataExtracted is not called.
C1_NotInvoice ==
  (variant = "multi" /\ SaysNotInvoice)
    => /\ state = "not-invoice"
       /\ errorMessage = MsgNotInvoice
       /\ ~last.cb
       /\ last.exc = ErrorOf(NOT_INVOICE)

\* a response with isInvoice false whose line item and date pass every check
C1_Witness ==
  /\ variant = "multi"
  /\ SaysNotInvoice
  /\ last.out.o.lineItems = ArrayOf(<<GoodItem>>)
  /\ last.out.o.invoiceDate = GoodDate
  /\ state = "not-invoice"

FormatMessage ==
  IF variant = "multi" THEN MsgInvalidFormatMulti ELSE MsgInvalidFormatSimplified
TooLargeMessage ==
  IF variant = "multi" THEN MsgTooLargeMulti ELSE MsgTooLargeSimplified

DeclaredValid(type) ==
  \/ type.top = "image" /\ type.sub \in {"jpeg", "jpg", "png", "webp"}
  \/ type.top = "application" /\ type.sub = "pdf"
  \/ type.top = "text" /\ type.sub = "plain"

\* C2: a file whose media type is not one of the six, or that is larger than
\* 10 * 1024 * 1024 bytes, ends handleFiles in the error state with the
\* invalid-format (respectively oversized) message, processDocument is not
\* started and no call is issued; a file of the six types of exactly
\* 10 * 1024 * 1024 bytes is let through.
C2_Gate ==
  Submitted =>
    /\ ~DeclaredValid(last.file.type)
         => /\ state = "error" /\ errorMessage = FormatMessage
            /\ ~last.started /\ ~last.call /\ subs = <<>>
    /\ (DeclaredValid(last.file.type) /\ last.file.size > 10 * 1024 * 1024)
         => /\ state = "error" /\ errorMessage = TooLargeMessage
            /\ ~last.started /\ ~last.call /\ subs = <<>>
    /\ (DeclaredValid(last.file.type) /\ last.file.size = 10 * 1024 * 1024)
         => /\ last.started /\ state = "processing" /\ errorMessage = ""
            /\ Len(subs) = 1

\* an oversized file of a valid type was dropped and refused
C2_Witness ==
  /\ Submitted
  /\ DeclaredValid(last.file.type)
  /\ last.file.size = 10 * 1024 * 1024 + 1
  /\ state = "error"
  /\ errorMessage = TooLargeMessage

\* what was handed to onDataExtracted by the handler that ran last
WasDelivered == CallSettled /\ last.cb

\* the line items handed over (the card variant hands over one record)
DeliveredQuantities ==
  IF variant = "multi"
  THEN {last.data.lineItems.items[i].quantity : i \in 1..Len(last.data.lineItems.items)}
  ELSE {last.data.quantity}

DeliveredRates ==
  IF variant = "multi"
  THEN {last.data.lineItems.items[i].payRateInSubunits :
          i \in 1..Len(last.data.lineItems.items)}
  ELSE {last.data.payRateInSubunits}

\* the fields of the response, in the object or in its envelope
ResponseQuantities ==
  IF variant = "multi"
  THEN {last.out.o.lineItems.items[i].quantity : i \in 1..Len(last.out.o.lineItems.items)}
  ELSE {last.out.o.quantity}

BadQuantities == {Abc, JStr(<<"0">>), JStr(<<"1", "0", "0", "0", "1">>)}

QuantityInRange(q) ==
  /\ IsFinite(ParseFloat(ToStr(q)))
  /\ NumGt(ParseFloat(ToStr(q)), Whole(0))
  /\ NumLe(ParseFloat(ToStr(q)), Whole(10000))

QuantityFailure ==
  IF variant = "multi" THEN ErrorOf(ProcessingFailedPrefix \o MsgInvalidQuantity)
  ELSE ErrorOf(MsgInvalidQuantitySimplified)

\* C3: in every variant a response whose quantity is "abc", "0" or "10001"
\* is not handed to onDataExtracted and, when it is the only fault of a card
\* response, fails with the invalid-quantity failure; every quantity handed
\* over parses to a finite number in (0, 10000].
C3_Quantity ==
  /\ WasDelivered => \A q \in DeliveredQuantities : QuantityInRange(q)
  /\ (GotObject /\ ResponseQuantities \cap BadQuantities # {}) => ~last.cb
  /\ (GotObject /\ variant = "simplified" /\ ~last.out.wrapped
        /\ last.out.o.quantity \in BadQuantities
        /\ last.out.o.payRateInSubunits = JNum(Whole(5000))
        /\ last.out.o.invoiceDate = GoodDate)
       => last.exc = QuantityFailure

RateInRange(r) ==
  /\ r.t = "number"
  /\ IsFinite(r.n)
  /\ NumLe(Whole(0), r.n)
  /\ NumLe(r.n, Whole(100000000))

\* C4: in every variant data is handed to onDataExtracted only if every
\* payRateInSubunits in it is a number within [0, 100000000], also when the
\* value came through the properties envelope and Number().
C4_Rate == WasDelivered => \A r \in DeliveredRates : RateInRange(r)

\* the response is an object of the schema, returned without an envelope
SchemaObject ==
  /\ GotObject
  /\ ~last.out.wrapped
  /\ last.out.o \in (IF variant = "multi" THEN MultiObjects ELSE SimplifiedObjects)

\* C5: after a successful extraction onDataExtracted is called with the
\* fields of the response minus isInvoice and the state becomes success, in
\* every variant.
C5_Success ==
  WasDelivered =>
    /\ state = "success"
    /\ SchemaObject => last.data = Without(last.out.o, {"isInvoice"})

\* the response as validated, and its line items
Validated == NormalizeMulti(last.out)
ValidatedItems == Validated.o.lineItems.items
HasItems ==
  /\ "lineItems" \in Validated.o.has
  /\ Validated.o.lineItems.arr
  /\ ValidatedItems # <<>>

MultiValidated ==
  variant = "multi" /\ CallSettled /\ last.out.kind \in {"object", "null"}

\* what the handler threw for a validation message, "" standing for none
Reported(msg) == IF msg = "" THEN NoException ELSE RethrowMulti(msg)

\* the order of the checks as the claim has it: every rate, then every
\* quantity, then every description
ClaimedFailure ==
  IF Validated.nul THEN MsgUnableToAnalyze
  ELSE IF ~Truthy(Get(Validated.o, "isInvoice")) THEN NOT_INVOICE
  ELSE IF ~HasItems THEN MsgNoLineItems
  ELSE IF \E i \in 1..Len(ValidatedItems) : RateInvalid(ValidatedItems[i])
       THEN MsgInvalidAmount
  ELSE IF \E i \in 1..Len(ValidatedItems) : QuantityInvalid(ValidatedItems[i])
       THEN MsgInvalidQuantity
  ELSE IF \E i \in 1..Len(ValidatedItems) : DescriptionInvalid(ValidatedItems[i])
       THEN MsgInvalidDescription
  ELSE IF ~DateRegexTest(ToStr(Get(Validated.o, "invoiceDate"))) THEN MsgInvalidDate
  ELSE ""

\* C6 as stated: the failure reported is that of the earliest violated check
\* in the order non-null object, isInvoice, lineItems non-empty, rate of
\* every item, quantity of every item, description of every item, date.
C6_ClaimedOrder == MultiValidated => last.exc = Reported(ClaimedFailure)

Faulty(item) ==
  DescriptionInvalid(item) \/ RateInvalid(item) \/ QuantityInvalid(item)

FaultyItems == {i \in 1..Len(ValidatedItems) : Faulty(ValidatedItems[i])}
FirstFaulty == CHOOSE i \in FaultyItems : \A j \in FaultyItems : i <= j

\* the order of the code: the items one after the other, and in each item
\* the description, then the rate, then the quantity
ItemwiseFailure ==
  IF Validated.nul THEN MsgUnableToAnalyze
  ELSE IF ~Truthy(Get(Validated.o, "isInvoice")) THEN NOT_INVOICE
  ELSE IF ~HasItems THEN MsgNoLineItems
  ELSE IF FaultyItems # {}
       THEN IF DescriptionInvalid(ValidatedItems[FirstFaulty]) THEN MsgInvalidDescription
            ELSE IF RateInvalid(ValidatedItems[FirstFaulty]) THEN MsgInvalidAmount
            ELSE MsgInvalidQuantity
  ELSE IF ~DateRegexTest(ToStr(Get(Validated.o, "invoiceDate"))) THEN MsgInvalidDate
  ELSE ""

\* C6 amended: the failure reported is that of the earliest violated check in
\* the order non-null object, isInvoice, lineItems non-empty, then item by
\* item the description, the rate and the quantity of that item, then date.
C6_ItemwiseOrder == MultiValidated => last.exc = Reported(ItemwiseFailure)

\* a bad quantity in the first item was reported although the second item
\* has a bad rate
C6_Witness ==
  /\ MultiValidated
  /\ last.out.o.lineItems =
       ArrayOf(<<LineItem(Consulting, JStr(<<"0">>), JBool(TRUE), JNum(Whole(5000))),
                 LineItem(Consulting, One, JBool(TRUE), JNum(Whole(MaxRate + 1)))>>)
  /\ last.exc = ErrorOf(ProcessingFailedPrefix \o MsgInvalidQuantity)
  /\ state = "error"
  /\ errorMessage = ProcessingFailedPrefix \o MsgInvalidQuantity

\* the response is {properties: P} and P has every field of the schema
WrappedComplete ==
  /\ GotObject
  /\ last.out.wrapped
  /\ (IF variant = "multi" THEN MultiFields ELSE SimplifiedFields) \subseteq last.out.o.has

\* how the same fields fare when they are returned without the envelope
UnwrappedResult == ProcessResponse(Returned(last.out.o))

\* a response without an envelope is handed over as returned
UnwrappedAsReturned ==
  (WasDelivered /\ ~last.out.wrapped) => last.data = Delivered(last.out.o)

Coerced(o) ==
  IF variant = "multi"
  THEN [o EXCEPT !.has = MultiFields,
                 !.isInvoice = JBool(Truthy(@)),
                 !.lineItems = IF @.arr THEN @ ELSE ArrayOf(<<>>),
                 !.invoiceDate = JStr(ToStr(@))]
  ELSE [o EXCEPT !.has = SimplifiedFields,
                 !.description = JStr(ToStr(@)),
                 !.quantity = JStr(ToStr(@)),
                 !.hourly = JBool(Truthy(@)),
                 !.payRateInSubunits = JNum(ToNum(@)),
                 !.invoiceDate = JStr(ToStr(@))]

SchemaTyped(o) ==
  o \in (IF variant = "multi" THEN MultiObjects ELSE SimplifiedObjects)

FourTwoTwo(s) ==
  /\ Len(s) = 10
  /\ \A i \in (1..4) \cup (6..7) \cup (9..10) :
       s[i] \in {"0", "1", "2", "3", "4", "5", "6", "7", "8", "9"}
  /\ s[5] = "-"
  /\ s[8] = "-"

ResponseDate == Get(last.out.o, "invoiceDate")
Complete == GotObject /\ (last.out.wrapped => WrappedComplete)

\* the response passes every check once its date is "2024-01-05"
DateIsOnlyFault ==
  /\ Complete
  /\ ~FourTwoTwo(ToStr(ResponseDate))
  /\ ProcessResponse([last.out EXCEPT !.o.invoiceDate = GoodDate]).ok

DateFailure ==
  IF variant = "multi" THEN ErrorOf(ProcessingFailedPrefix \o MsgInvalidDate)
  ELSE ErrorOf(MsgInvalidDateFormat)

\* C8: in every variant a response whose invoiceDate is not four digits,
\* hyphen, two digits, hyphen, two digits ("2024-1-5", "01/05/2024") is not
\* handed to onDataExtracted and, when the date is its only fault, fails
\* with the date-format failure; "2024-01-05" passes the date check.
C8_Date ==
  /\ (Complete /\ ~FourTwoTwo(ToStr(ResponseDate))) => ~last.cb
  /\ (Complete /\ ResponseDate \in {UnpaddedDate, SlashDate}) => ~last.cb
  /\ WasDelivered => FourTwoTwo(ToStr(last.data.invoiceDate))
  /\ DateIsOnlyFault
       => /\ last.exc = DateFailure
          /\ state = "error"
          /\ errorMessage = DateFailure.message
  /\ (Complete /\ ResponseDate = GoodDate) => last.exc # DateFailure

\* "2024-1-5" was the only fault of a response, which failed on its date
C8_Witness ==
  /\ DateIsOnlyFault
  /\ ResponseDate = UnpaddedDate
  /\ last.exc = DateFailure
  /\ state = "error"

\* C9: in every variant a file that passes the gate is read, encoded into a
\* payload (text/plain as text, tagged file, with its media type and its
\* name) and the call is issued; processDocument never fails with the
\* unsupported-file-type failure.
C9_Proceeds ==
  /\ (Submitted /\ last.started /\ apiKey # "")
       => subs[Len(subs)].pc = "reading"
  /\ last.op = "settle" => last.exc = ErrorOf(MsgApiKey)
  /\ last.op = "read"
       => /\ last.call
          /\ last.payload.tag \in {"image", "file"}
          /\ last.file.type = TextPlain
               => last.payload = [tag |-> "file", data |-> "text",
                                  mediaType |-> TextPlain,
                                  filename |-> last.file.name]

\* C10: in both variants a failed read (reader error, or a result of the
\* wrong kind) issues no call and ends in the error state with the message
\* "Failed to read the file. Please try a different file."
C10_ReadFailure ==
  last.op = "readFailed"
    => /\ ~last.call
       /\ state = "error"
       /\ errorMessage = MsgFailedToRead
       /\ subs = <<>>

\* C11: in both variants, with an empty API key processDocument throws the
\* "API key is not configured" error before any read and any call, and the
\* submission ends in the error state showing that message.
C11_ApiKey ==
  apiKey = "" =>
    /\ \A i \in 1..Len(subs) :
         /\ subs[i].pc = "thrown"
         /\ subs[i].exc = ErrorOf(MsgApiKey)
         /\ subs[i].payload = NoPayload
    /\ last.op \notin {"read", "readFailed", "call"}
    /\ ~last.call
    /\ ~last.cb
    /\ last.op = "settle"
         => /\ last.exc = ErrorOf(MsgApiKey)
            /\ state = "error"
            /\ errorMessage = MsgApiKey

\* a file that passed the gate was refused for the missing key
C11_Witness ==
  /\ apiKey = ""
  /\ last.op = "settle"
  /\ DeclaredValid(last.file.type)
  /\ last.exc = ErrorOf(MsgApiKey)
  /\ state = "error"
  /\ errorMessage = MsgApiKey

NonEmptyString(v) == v.present /\ v.value # ""

\* C12: the parse of the client environment fails whenever one of the two
\* variables is absent or is the empty string, and succeeds only when both
\* are non-empty strings.
C12_NonEmpty ==
  last.op = "load" =>
    (clientEnv.status = "loaded"
       <=> /\ NonEmptyString(env.NEXT_PUBLIC_STRIPE_PUBLISHABLE_KEY)
           /\ NonEmptyString(env.NEXT_PUBLIC_OPENAI_API_KEY))

\* a change or drop event has just been handled
Event == last'.op \in {"select", "drop"}

\* C13: in both variants a drop or a file selection that arrives while
\* disabled is true changes neither state nor errorMessage, starts no read
\* and no call, and does not invoke onDataExtracted.
C13_Disabled ==
  [][(disabled /\ Event)
       => /\ state' = state
          /\ errorMessage' = errorMessage
          /\ fileName' = fileName
          /\ extractedData' = extractedData
          /\ subs' = subs
          /\ timers' = timers
          /\ ~last'.started
          /\ ~last'.call
          /\ ~last'.cb]_vars

\* a valid file was dropped while disabled and a call was in flight: the
\* state is still processing and the call is still the only one
C13_Witness ==
  /\ disabled
  /\ last.op = "drop"
  /\ DeclaredValid(last.file.type)
  /\ last.file.size <= MaxFileSize
  /\ state = "processing"
  /\ Len(subs) = 1
  /\ subs[1].pc = "calling"

Terminal == {"success", "error", "not-invoice"}

\* C14: in both variants the state changes only from idle to processing,
\* from processing to success, error or not-invoice, and from one of these
\* three to idle by a reset.
C14_Transitions ==
  [][state' # state
       => \/ state = "idle" /\ state' = "processing"
          \/ state = "processing" /\ state' \in Terminal
          \/ /\ state \in Terminal
             /\ state' = "idle"
             /\ last'.op \in {"reset", "timer"}]_vars

\* the gate has just refused the file of a change or drop event
Refused == ~disabled /\ Event /\ ~last'.started

\* C15: when the gate refuses a file, only state (to error) and errorMessage
\* change: fileName and the extracted data are as before, the drag state is
\* as the event handler left it, nothing is started and onDataExtracted is
\* not invoked.
C15_GateFrame ==
  [][Refused
       => /\ state' = "error"
          /\ errorMessage' \in {FormatMessage, TooLargeMessage}
          /\ fileName' = fileName
          /\ extractedData' = extractedData
          /\ last'.op = "select"
               => isDragActive' = isDragActive /\ dragCounter' = dragCounter
          /\ subs' = subs
          /\ timers' = timers
          /\ ~last'.cb]_vars

\* C16: in the window-wide variant, after any sequence of dragenter,
\* dragleave, drop and reset events, with any value of disabled and with
\* drags of files and of other things, the drag counter is not negative and
\* isDragActive is true exactly when the counter is greater than 0; a drop
\* and a reset leave the counter at 0.
C16_DragCounter ==
  variant = "multi" =>
    /\ dragCounter >= 0
    /\ isDragActive <=> dragCounter > 0
    /\ last.op \in {"drop", "reset", "timer"} => dragCounter = 0

\* the drag left one of two nested elements: the overlay stays
C16_Witness ==
  /\ variant = "multi"
  /\ last.op = "dragleave"
  /\ dragCounter = 1
  /\ isDragActive

CallInFlight == \E i \in 1..Len(subs) : subs[i].pc = "calling"

\* C17: in both variants, under any interleaving of submissions, completions,
\* resets and delayed resets, the state is processing whenever a call is in
\* flight, and errorMessage and fileName are as the submission set them.
C17_InFlight ==
  CallInFlight =>
    /\ state = "processing"
    /\ errorMessage = ""
    /\ variant = "multi" => fileName # ""

====
